---- MODULE Spec2Model ----
(***************************************************************************)
(* Model of src/src/connection.rs: a Connection owns a tokio runtime on    *)
(* which Connection::sync_loop (and the membership fetches it spawns) run, *)
(* and a Weechat task running Connection::response_receiver.  The two      *)
(* sides communicate over one bounded async channel.  The device id files  *)
(* of Connection::save_device_id and Connection::load_device_id are        *)
(* modelled next to it.                                                    *)
(***************************************************************************)
EXTENDS Integers, Sequences, FiniteSets, Bags, TLC

\* ---------------------------------------------------------------- bounds
\* Capacity of the channel.  The code uses async_channel(1000); the model
\* scales the capacity down so that a full channel is reached.
ChannelCapacity == 2
\* Number of sync responses one run of the sync loop receives.
MaxSyncs == 2
\* Largest number of state events, and of timeline events, a room carries in
\* one sync response.
MaxEvents == 2
\* Number of live clones of one Connection.
MaxClones == 2

\* ------------------------------------------------------------ value sets
\* Room identifiers, in the order response.rooms.join (a BTreeMap) yields.
RoomOrder == <<"R1", "R2">>
Rooms == {RoomOrder[i] : i \in 1..Len(RoomOrder)}
NoRoom == "-"
\* Device identifiers the homeserver can issue.
DeviceIds == {"D1", "D2"}
\* Option::None
None == "None"
\* Content of the device id file: absent, empty, or a device id.
Absent == "absent"
Empty == ""
FileStates == {Absent, Empty} \cup DeviceIds

VARIABLES
    clones,        \* live clones of the Connection (0: dropped)
    cloneDropped,  \* a clone was dropped while another one lived
    serverAlive,   \* the InnerServer behind the Weak reference still exists
    loggedIn,      \* client.logged_in()
    deviceFile,    \* content of <server_path>/<user_name>.device_id
    membersSynced, \* room -> r.are_members_synced()
    channel,       \* the async channel: messages sent and not yet received
    sendOrder,     \* the payloads not yet received, in the order their sends completed
    outstanding,   \* bag of the payloads sent and not yet received
    disp,          \* position of response_receiver
    recvAfterErr,  \* recv returned a payload after an Err payload was handled
    inOrder,       \* "none": nothing received yet; "ok": every payload was
                   \* received in the order of sendOrder; "bad" otherwise
    errHandled,    \* the receiver has handled an Err payload
    errorsPrinted, \* server.print_error calls of the receiver
    syncPc,        \* position of sync_loop
    device_id,     \* local device_id of sync_loop
    respDevice,    \* response.device_id of the login response
    trace,         \* what the sync loop did while logging in, in order
    syncs,         \* sync responses received by this sync loop
    response,      \* response.rooms.join of the response the callback works on
    cursor,        \* position of the callback in its loops
    emitted,       \* payloads the callback enqueued for `response`
    fetchReq,      \* room -> spawned fetches awaiting client.room_members
    fetchSend,     \* room -> spawned fetches awaiting channel.send
    bridge,        \* request bridge calls (Connection::spawn)
    accounts,      \* the two user names whose identity files are looked at
    store,         \* file path -> content, inside one server directory
    storeOp        \* the last save_device_id / load_device_id call

connVars == <<clones, cloneDropped, serverAlive>>
clientVars == <<loggedIn, deviceFile, membersSynced>>
chanVars == <<channel, sendOrder, outstanding>>
dispVars == <<disp, recvAfterErr, inOrder, errHandled, errorsPrinted>>
bootVars == <<device_id, respDevice, trace>>
cbVars == <<syncs, response, cursor, emitted>>
fetchVars == <<fetchReq, fetchSend>>
storeVars == <<accounts, store, storeOp>>
vars == <<clones, cloneDropped, serverAlive, loggedIn, deviceFile,
          membersSynced, channel,
          sendOrder, outstanding, disp, recvAfterErr, inOrder, errHandled,
          errorsPrinted, syncPc, device_id, respDevice, trace, syncs,
          response, cursor, emitted, fetchReq, fetchSend, bridge, accounts,
          store, storeOp>>

\* ------------------------------------------------------------- messages
\* Result<ClientMessage, String> payloads.  `ev` is the position of the
\* event in the list the server sent.
LoginMsg == [kind |-> "Login", room |-> NoRoom, ev |-> 0]
ErrMsg == [kind |-> "Err", room |-> NoRoom, ev |-> 0]
StateMsg(r, i) == [kind |-> "SyncState", room |-> r, ev |-> i]
TimelineMsg(r, i) == [kind |-> "SyncEvent", room |-> r, ev |-> i]
MembersMsg(r) == [kind |-> "Members", room |-> r, ev |-> 0]

\* --------------------------------------------------------- the channel
\* async_channel(ChannelCapacity): a bounded queue.
\* Variant: a channel that never reports full.
ChanFull_Never(q) == FALSE
ChanFull(q) == Len(q) >= ChannelCapacity
ChanPut(q, m) == Append(q, m)
\* Variant: recv hands out the newest message.
ChanHead_Newest(q) == q[Len(q)]
ChanHead(q) == Head(q)
ChanRest(q) == Tail(q)

\* channel.send(body).await: completes only while the channel has room.  A
\* channel whose receiver is gone still takes messages until it is full.
Send(body) ==
    /\ ~ChanFull(channel)
    /\ channel' = ChanPut(channel, body)
    /\ sendOrder' = Append(sendOrder, body)
    /\ outstanding' = outstanding (+) SetToBag({body})

\* receiver.recv().await returning a payload.
Recv ==
    /\ channel # <<>>
    /\ channel' = ChanRest(channel)
    /\ sendOrder' = Tail(sendOrder)
    /\ outstanding' = outstanding (-) SetToBag({ChanHead(channel)})
    /\ inOrder' = IF inOrder # "bad" /\ ChanHead(channel) = Head(sendOrder)
                  THEN "ok" ELSE "bad"
    /\ recvAfterErr' = (recvAfterErr \/ errHandled)

\* ----------------------------------------------------------- task state
SyncStopped == syncPc \in {"done", "panicked", "cancelled"}
RECURSIVE SumTo(_, _)
SumTo(f, n) == IF n = 0 THEN 0 ELSE f[RoomOrder[n]] + SumTo(f, n - 1)
FetchesAlive == SumTo(fetchReq, Len(RoomOrder)) + SumTo(fetchSend, Len(RoomOrder))
\* Every Sender (the sync loop's and the clones the fetches hold) is dropped.
ChannelClosed == SyncStopped /\ FetchesAlive = 0
NoFetches == [r \in Rooms |-> 0]
IdleCursor == [ri |-> 0, ph |-> "-", ei |-> 0]

\* ------------------------------------------------------ request bridge
Calls == {1, 2}
\* Transaction ids a caller passes, and the ones Uuid::new_v4 draws.
Tokens == {"T1", "T2"}
FreshTokens == {"U1", "U2"}
\* The operations built on Connection::spawn.
BridgeOps == {"send_message", "delete_devices", "room_messages", "devices",
              "send_typing_notice"}
IdleCall == [st |-> "idle", op |-> None, arg |-> None, txn |-> None,
             ret |-> None]

\* No save_device_id or load_device_id call yet.
IdleOp == [op |-> "-", user |-> <<>>, dev |-> None, ok |-> TRUE, val |-> None,
           pUser |-> <<>>, pDev |-> None]

\* ------------------------------------------------------- Connection::new
\* The state right after Connection::new: an empty channel, the receiver
\* waiting in recv, the sync loop spawned and not yet polled.
Init ==
    /\ clones = 1
    /\ cloneDropped = FALSE
    /\ serverAlive = TRUE
    /\ loggedIn \in BOOLEAN
    /\ deviceFile \in (IF loggedIn THEN DeviceIds ELSE FileStates)
    /\ membersSynced = [r \in Rooms |-> FALSE]
    /\ channel = <<>>
    /\ sendOrder = <<>>
    /\ outstanding = EmptyBag
    /\ disp = "recv"
    /\ recvAfterErr = FALSE
    /\ inOrder = "none"
    /\ errHandled = FALSE
    /\ errorsPrinted = 0
    /\ syncPc = "start"
    /\ device_id = None
    /\ respDevice = None
    /\ trace = <<>>
    /\ syncs = 0
    /\ response = <<>>
    /\ cursor = IdleCursor
    /\ emitted = <<>>
    /\ fetchReq = NoFetches
    /\ fetchSend = NoFetches
    /\ bridge = [c \in Calls |-> IdleCall]
    /\ accounts = <<>>
    /\ store = <<>>
    /\ storeOp = IdleOp

\* #[derive(Clone)]: another handle on the same Rc<Task> and Rc<Runtime>.
CloneConnection ==
    /\ clones >= 1
    /\ clones < MaxClones
    /\ clones' = clones + 1
    /\ UNCHANGED <<cloneDropped, serverAlive, clientVars, chanVars, dispVars,
                   syncPc, bootVars, cbVars, fetchVars, bridge, storeVars>>

\* Variant: the spawned fetches outlive the connection.
DropConnection_LeakFetches ==
    /\ clones >= 1
    /\ clones' = clones - 1
    /\ disp' = IF disp = "recv" THEN "cancelled" ELSE disp
    /\ syncPc' = IF SyncStopped THEN syncPc ELSE "cancelled"
    /\ channel' = <<>>
    /\ sendOrder' = <<>>
    /\ outstanding' = EmptyBag
    /\ device_id' = None
    /\ respDevice' = None
    /\ response' = <<>>
    /\ cursor' = IdleCursor
    /\ emitted' = <<>>
    /\ cloneDropped' = (cloneDropped \/ clones > 1)
    /\ UNCHANGED <<serverAlive, clientVars, recvAfterErr, inOrder, errHandled,
                   errorsPrinted, trace, syncs, fetchVars, bridge, storeVars>>

\* Variant: every clone owns the Task and the Runtime, so that the drop of
\* any clone tears them down.
DropConnection_EveryDrop ==
    /\ clones >= 1
    /\ clones' = clones - 1
    /\ disp' = IF disp = "recv" THEN "cancelled" ELSE disp
    /\ syncPc' = IF SyncStopped THEN syncPc ELSE "cancelled"
    /\ fetchReq' = NoFetches
    /\ fetchSend' = NoFetches
    /\ channel' = <<>>
    /\ sendOrder' = <<>>
    /\ outstanding' = EmptyBag
    /\ device_id' = None
    /\ respDevice' = None
    /\ response' = <<>>
    /\ cursor' = IdleCursor
    /\ emitted' = <<>>
    /\ cloneDropped' = (cloneDropped \/ clones > 1)
    /\ UNCHANGED <<serverAlive, clientVars, recvAfterErr, inOrder, errHandled,
                   errorsPrinted, trace, syncs, bridge, storeVars>>

\* Dropping a clone.  Dropping the last one drops the Task (the receiver is
\* cancelled) and the Runtime (the sync loop and the fetches are cancelled);
\* their locals and, with its last handle, the channel are freed.
DropConnection ==
    /\ clones >= 1
    /\ clones' = clones - 1
    /\ IF clones = 1
       THEN /\ disp' = IF disp = "recv" THEN "cancelled" ELSE disp
            /\ syncPc' = IF SyncStopped THEN syncPc ELSE "cancelled"
            /\ fetchReq' = NoFetches
            /\ fetchSend' = NoFetches
            /\ channel' = <<>>
            /\ sendOrder' = <<>>
            /\ outstanding' = EmptyBag
            /\ device_id' = None
            /\ respDevice' = None
            /\ response' = <<>>
            /\ cursor' = IdleCursor
            /\ emitted' = <<>>
       ELSE UNCHANGED <<disp, syncPc, fetchReq, fetchSend, chanVars,
                        device_id, respDevice, response, cursor, emitted>>
    /\ cloneDropped' = (cloneDropped \/ clones > 1)
    /\ UNCHANGED <<serverAlive, clientVars, recvAfterErr, inOrder, errHandled,
                   errorsPrinted, trace, syncs, bridge, storeVars>>

\* The owner of the InnerServer drops it; the receiver holds only a Weak.
DestroyServer ==
    /\ serverAlive
    /\ serverAlive' = FALSE
    /\ UNCHANGED <<clones, cloneDropped, clientVars, chanVars, dispVars, syncPc,
                   bootVars, cbVars, fetchVars, bridge, storeVars>>

\* ------------------------------------------- Connection::response_receiver
\* One turn of the loop for an Ok payload: recv, upgrade the server, invoke
\* (and await) the handler of the variant.
DispatchMessage ==
    /\ disp = "recv"
    /\ serverAlive
    /\ channel # <<>>
    /\ ChanHead(channel).kind # "Err"
    /\ Recv
    /\ UNCHANGED <<connVars, clientVars, disp, errHandled, errorsPrinted,
                   syncPc, bootVars, cbVars, fetchVars, bridge, storeVars>>

\* One turn of the loop for an Err payload: print_error("Ruma error ..."),
\* and the loop goes on.
DispatchError ==
    /\ disp = "recv"
    /\ serverAlive
    /\ channel # <<>>
    /\ ChanHead(channel).kind = "Err"
    /\ Recv
    /\ errHandled' = TRUE
    /\ errorsPrinted' = errorsPrinted + 1
    /\ UNCHANGED <<connVars, clientVars, disp, syncPc, bootVars, cbVars,
                   fetchVars, bridge, storeVars>>

\* recv on an empty channel whose senders are all dropped returns Err:
\* print_error("Error receiving message ...") and return.
DispatchClosed ==
    /\ disp = "recv"
    /\ serverAlive
    /\ channel = <<>>
    /\ ChannelClosed
    /\ errorsPrinted' = errorsPrinted + 1
    /\ disp' = "done"
    /\ UNCHANGED <<connVars, clientVars, chanVars, recvAfterErr, inOrder, errHandled,
                   syncPc, bootVars, cbVars, fetchVars, bridge, storeVars>>

\* recv returned (a payload, or the closed error) and the Weak no longer
\* upgrades: expect("Can't upgrade server in sync receiver") panics.  A
\* payload taken from the channel is dropped with the task.
DispatchPanic ==
    /\ disp = "recv"
    /\ ~serverAlive
    /\ \/ Recv
       \/ /\ channel = <<>>
          /\ ChannelClosed
          /\ UNCHANGED <<chanVars, recvAfterErr, inOrder>>
    /\ disp' = "panicked"
    /\ UNCHANGED <<connVars, clientVars, errHandled, errorsPrinted, syncPc,
                   bootVars, cbVars, fetchVars, bridge, storeVars>>


\* ------------------------------------------------ device identity store
Ev(e, a) == [ev |-> e, arg |-> a]

\* Variant: an empty file is returned as an (empty) device id.
load_device_id_EmptyIsSome(file, readErr) ==
    IF file = Absent THEN [ok |-> TRUE, val |-> None]
    ELSE IF readErr THEN [ok |-> FALSE, val |-> None]
    ELSE [ok |-> TRUE, val |-> file]

\* Connection::load_device_id on a file with content `file`; readErr: the
\* read fails with an error other than NotFound.
load_device_id(file, readErr) ==
    IF file = Absent THEN [ok |-> TRUE, val |-> None]
    ELSE IF readErr THEN [ok |-> FALSE, val |-> None]
    ELSE IF file = Empty THEN [ok |-> TRUE, val |-> None]
    ELSE [ok |-> TRUE, val |-> file]

\* Variant: save reports success without writing.
save_device_id_NoWrite(file, dev, outcome) ==
    IF outcome = "ok" THEN [ok |-> TRUE, file |-> file]
    ELSE IF outcome = "create_failed" THEN [ok |-> FALSE, file |-> file]
    ELSE [ok |-> FALSE, file |-> Empty]

\* Variant: the file is created and nothing is written into it.
save_device_id_Truncate(file, dev, outcome) ==
    IF outcome = "ok" THEN [ok |-> TRUE, file |-> Empty]
    ELSE IF outcome = "create_failed" THEN [ok |-> FALSE, file |-> file]
    ELSE [ok |-> FALSE, file |-> Empty]

\* Connection::save_device_id: std::fs::write creates (truncates) the file
\* and writes the device id.  Either step can fail.
WriteOutcomes == {"ok", "create_failed", "write_failed"}
save_device_id(file, dev, outcome) ==
    IF outcome = "ok" THEN [ok |-> TRUE, file |-> dev]
    ELSE IF outcome = "create_failed" THEN [ok |-> FALSE, file |-> file]
    ELSE [ok |-> FALSE, file |-> Empty]

\* ------------------------------------------- the identity files of a server
\* Longest user name.
MaxNameLen == 3
\* The characters of a user name (settings.username): a letter and the dot.
NameChars == {"a", "."}
RECURSIVE SeqsUpTo(_, _)
SeqsUpTo(S, n) ==
    IF n = 0 THEN {<<>>}
    ELSE LET P == SeqsUpTo(S, n - 1) IN
           P \cup {Append(q, c) : q \in {x \in P : Len(x) = n - 1}, c \in S}
\* User names begin with a letter.
UserNames == {n \in SeqsUpTo(NameChars, MaxNameLen) : n # <<>> /\ n[1] # "."}
\* What a LoginResponse can carry as device_id: DeviceIdBox is an opaque
\* string, the empty string included.
DeviceIdStrings == DeviceIds \cup {Empty}

\* Path::file_stem of a file name: the part before the last dot; the whole
\* name when it has no dot, or only a leading one.
LastDot(n) ==
    LET dots == {i \in 1..Len(n) : n[i] = "."} IN
      IF dots = {} THEN 0 ELSE CHOOSE i \in dots : \A j \in dots : j <= i
file_stem(n) ==
    IF LastDot(n) <= 1 THEN n ELSE SubSeq(n, 1, LastDot(n) - 1)

\* server_path.push(user_name); server_path.set_extension("device_id"):
\* the file inside the server directory.  set_extension replaces what
\* follows the last dot of the file name.
DevicePath(user_name) == file_stem(user_name) \o <<".device_id">>

\* The server directory is set up for two accounts; no identity file yet.
OpenStore ==
    /\ accounts = <<>>
    /\ \E u \in UserNames, v \in UserNames :
         /\ u # v
         /\ accounts' = <<u, v>>
         /\ store' = [p \in {DevicePath(u), DevicePath(v)} |-> Absent]
    /\ storeOp' = IdleOp
    /\ UNCHANGED <<connVars, clientVars, chanVars, dispVars, syncPc, bootVars,
                   cbVars, fetchVars, bridge>>

\* Connection::save_device_id(user_name, server_path, response)
StoreSave(k) ==
    /\ accounts # <<>>
    /\ \E d \in DeviceIdStrings, outcome \in WriteOutcomes :
         LET u == accounts[k]
             r == save_device_id(store[DevicePath(u)], d, outcome) IN
           /\ store' = [store EXCEPT ![DevicePath(u)] = r.file]
           /\ storeOp' = [op |-> "save", user |-> u, dev |-> d, ok |-> r.ok,
                          val |-> None, pUser |-> <<>>, pDev |-> None]
    /\ UNCHANGED <<connVars, clientVars, chanVars, dispVars, syncPc, bootVars,
                   cbVars, fetchVars, bridge, accounts>>

\* Connection::load_device_id(user_name, server_path).  pUser and pDev
\* remember a successful save that came right before it.
StoreLoad(k) ==
    /\ accounts # <<>>
    /\ \E readErr \in BOOLEAN :
         LET u == accounts[k]
             r == load_device_id(store[DevicePath(u)], readErr)
             afterSave == storeOp.op = "save" /\ storeOp.ok IN
           storeOp' = [op |-> "load", user |-> u, dev |-> None, ok |-> r.ok,
                       val |-> r.val,
                       pUser |-> IF afterSave THEN storeOp.user ELSE <<>>,
                       pDev |-> IF afterSave THEN storeOp.dev ELSE None]
    /\ UNCHANGED <<connVars, clientVars, chanVars, dispVars, syncPc, bootVars,
                   cbVars, fetchVars, bridge, accounts, store>>

\* The identity files of one server directory, saved and loaded.
NextStore ==
    \/ OpenStore
    \/ \E k \in 1..2 : StoreSave(k)
    \/ \E k \in 1..2 : StoreLoad(k)

SpecStore == Init /\ [][NextStore]_vars

\* ------------------------------------------ Connection::sync_loop: login
\* if !client.logged_in().await
SyncStart ==
    /\ syncPc = "start"
    /\ syncPc' = IF loggedIn THEN "filter" ELSE "load"
    /\ UNCHANGED <<connVars, clientVars, chanVars, dispVars, bootVars, cbVars,
                   fetchVars, bridge, storeVars>>

\* let device_id = Connection::load_device_id(&username, server_path)
LoadDeviceId ==
    /\ syncPc = "load"
    /\ \E readErr \in BOOLEAN :
         LET r == load_device_id(deviceFile, readErr) IN
           IF r.ok
           THEN /\ device_id' = r.val
                /\ syncPc' = "login"
                /\ trace' = trace
           ELSE /\ device_id' = device_id
                /\ syncPc' = "send_read_err"
                /\ trace' = Append(trace, Ev("read_failed", None))
    /\ UNCHANGED <<connVars, clientVars, chanVars, dispVars, respDevice,
                   cbVars, fetchVars, bridge, storeVars>>

\* Variant: the return after the send is missing.
SendReadErr_NoReturn ==
    /\ syncPc = "send_read_err"
    /\ Send(ErrMsg)
    /\ trace' = Append(trace, Ev("enq", "Err"))
    /\ syncPc' = "login"
    /\ UNCHANGED <<connVars, clientVars, dispVars, device_id, respDevice,
                   cbVars, fetchVars, bridge, storeVars>>

\* channel.send(Err("Error while reading the device id ...")).await; return
SendReadErr ==
    /\ syncPc = "send_read_err"
    /\ Send(ErrMsg)
    /\ trace' = Append(trace, Ev("enq", "Err"))
    /\ syncPc' = "done"
    /\ UNCHANGED <<connVars, clientVars, dispVars, device_id, respDevice,
                   cbVars, fetchVars, bridge, storeVars>>

\* client.login(username, password, device_id, ...) succeeds.  The server
\* answers with the device id asked for, or issues one.
LoginAccepted ==
    /\ syncPc = "login"
    /\ \E d \in DeviceIds :
         /\ device_id # None => d = device_id
         /\ respDevice' = d
         /\ trace' = trace \o <<Ev("login", device_id), Ev("login_ok", d)>>
    /\ loggedIn' = TRUE
    /\ syncPc' = "save"
    /\ UNCHANGED <<connVars, deviceFile, membersSynced, chanVars, dispVars,
                   device_id, cbVars, fetchVars, bridge, storeVars>>

\* client.login(...) fails.
LoginRejected ==
    /\ syncPc = "login"
    /\ trace' = trace \o <<Ev("login", device_id), Ev("login_rejected", None)>>
    /\ device_id' = None
    /\ syncPc' = "send_login_err"
    /\ UNCHANGED <<connVars, clientVars, chanVars, dispVars, respDevice,
                   cbVars, fetchVars, bridge, storeVars>>

\* Variant: the login is tried again after the error was sent.
SendLoginErr_Retry ==
    /\ syncPc = "send_login_err"
    /\ Send(ErrMsg)
    /\ trace' = Append(trace, Ev("enq", "Err"))
    /\ syncPc' = "login"
    /\ UNCHANGED <<connVars, clientVars, dispVars, device_id, respDevice,
                   cbVars, fetchVars, bridge, storeVars>>

\* channel.send(Err("Failed to log in ...")).await; return
SendLoginErr ==
    /\ syncPc = "send_login_err"
    /\ Send(ErrMsg)
    /\ trace' = Append(trace, Ev("enq", "Err"))
    /\ syncPc' = "done"
    /\ UNCHANGED <<connVars, clientVars, dispVars, device_id, respDevice,
                   cbVars, fetchVars, bridge, storeVars>>

\* Connection::save_device_id(&username, server_path, &response)
SaveDeviceId ==
    /\ syncPc = "save"
    /\ \E outcome \in WriteOutcomes :
         LET r == save_device_id(deviceFile, respDevice, outcome) IN
           /\ deviceFile' = r.file
           /\ IF r.ok
              THEN /\ trace' = Append(trace, Ev("write", respDevice))
                   /\ syncPc' = "send_login"
              ELSE /\ trace' = Append(trace, Ev("write_failed", None))
                   /\ syncPc' = "send_write_err"
    /\ device_id' = None
    /\ respDevice' = None
    /\ UNCHANGED <<connVars, loggedIn, membersSynced, chanVars, dispVars,
                   cbVars, fetchVars, bridge, storeVars>>

\* Variant: the return after the send is missing.
SendWriteErr_NoReturn ==
    /\ syncPc = "send_write_err"
    /\ Send(ErrMsg)
    /\ trace' = Append(trace, Ev("enq", "Err"))
    /\ syncPc' = "filter"
    /\ UNCHANGED <<connVars, clientVars, dispVars, device_id, respDevice,
                   cbVars, fetchVars, bridge, storeVars>>

\* channel.send(Err("Error while writing the device id ...")).await; return
SendWriteErr ==
    /\ syncPc = "send_write_err"
    /\ Send(ErrMsg)
    /\ trace' = Append(trace, Ev("enq", "Err"))
    /\ syncPc' = "done"
    /\ UNCHANGED <<connVars, clientVars, dispVars, device_id, respDevice,
                   cbVars, fetchVars, bridge, storeVars>>

\* Variant: the loop goes on without sending the LoginMessage.
SendLogin_NoSend ==
    /\ syncPc = "send_login"
    /\ trace' = Append(trace, Ev("enq", "Login"))
    /\ syncPc' = "filter"
    /\ UNCHANGED <<connVars, clientVars, chanVars, dispVars, device_id,
                   respDevice, cbVars, fetchVars, bridge, storeVars>>

\* channel.send(Ok(ClientMessage::LoginMessage(response))).await
SendLogin ==
    /\ syncPc = "send_login"
    /\ Send(LoginMsg)
    /\ trace' = Append(trace, Ev("enq", "Login"))
    /\ syncPc' = "filter"
    /\ UNCHANGED <<connVars, clientVars, dispVars, device_id, respDevice,
                   cbVars, fetchVars, bridge, storeVars>>

\* ------------------------------------- Connection::sync_loop: streaming
\* client.get_or_upload_filter("sync", ...).await.unwrap()
FilterOk ==
    /\ syncPc = "filter"
    /\ trace' = <<>>
    /\ syncPc' = "poll"
    /\ UNCHANGED <<connVars, clientVars, chanVars, dispVars, device_id,
                   respDevice, cbVars, fetchVars, bridge, storeVars>>

\* The filter request fails: unwrap panics and the task ends.
FilterFail ==
    /\ syncPc = "filter"
    /\ trace' = Append(trace, Ev("filter", None))
    /\ syncPc' = "panicked"
    /\ UNCHANGED <<connVars, clientVars, chanVars, dispVars, device_id,
                   respDevice, cbVars, fetchVars, bridge, storeVars>>

\* response.rooms.join: the joined rooms of a response in room id order,
\* each with its number of state events and of timeline events.
RECURSIVE Ascending(_, _)
Ascending(sub, n) ==
    IF n = 0 THEN <<>>
    ELSE Ascending(sub, n - 1) \o (IF n \in sub THEN <<n>> ELSE <<>>)
Counts == (0..MaxEvents) \X (0..MaxEvents)
JoinOf(sub, c) ==
    LET idx == Ascending(sub, Len(RoomOrder)) IN
      [k \in 1..Len(idx) |->
         [room |-> RoomOrder[idx[k]], s |-> c[1], t |-> c[2]]]
Responses ==
    {JoinOf(sub, c) : sub \in SUBSET (1..Len(RoomOrder)), c \in Counts}

\* Variant: the timeline events of a room are skipped.
Norm_SkipTimeline(resp, ri, ph, ei) ==
    IF ph = "state" /\ ei > resp[ri].s
    THEN [ri |-> ri, ph |-> "members", ei |-> 0]
    ELSE IF ph = "timeline" /\ ei > resp[ri].t
    THEN [ri |-> ri, ph |-> "members", ei |-> 0]
    ELSE [ri |-> ri, ph |-> ph, ei |-> ei]

\* The position the callback stops at next: empty event lists are skipped.
Norm(resp, ri, ph, ei) ==
    IF ph = "state" /\ ei > resp[ri].s
    THEN IF resp[ri].t >= 1 THEN [ri |-> ri, ph |-> "timeline", ei |-> 1]
         ELSE [ri |-> ri, ph |-> "members", ei |-> 0]
    ELSE IF ph = "timeline" /\ ei > resp[ri].t
    THEN [ri |-> ri, ph |-> "members", ei |-> 0]
    ELSE [ri |-> ri, ph |-> ph, ei |-> ei]

\* sync_with_callback gets a response and calls the callback with it.  A
\* response without joined rooms makes the callback return at once.
Poll ==
    /\ syncPc = "poll"
    /\ syncs < MaxSyncs
    /\ \E resp \in Responses :
         /\ response' = resp
         /\ IF resp = <<>>
            THEN syncPc' = "poll" /\ cursor' = IdleCursor
            ELSE syncPc' = "callback" /\ cursor' = Norm(resp, 1, "state", 1)
    /\ syncs' = syncs + 1
    /\ emitted' = <<>>
    /\ UNCHANGED <<connVars, clientVars, chanVars, dispVars, bootVars,
                   fetchVars, bridge, storeVars>>

\* for event in room.state.events { sync_channel.send(SyncState).await }
CallbackSendState ==
    /\ syncPc = "callback"
    /\ cursor.ph = "state"
    /\ Send(StateMsg(response[cursor.ri].room, cursor.ei))
    /\ emitted' = Append(emitted, StateMsg(response[cursor.ri].room, cursor.ei))
    /\ cursor' = Norm(response, cursor.ri, "state", cursor.ei + 1)
    /\ UNCHANGED <<connVars, clientVars, dispVars, syncPc, bootVars, syncs,
                   response, fetchVars, bridge, storeVars>>

\* for event in room.timeline.events { sync_channel.send(SyncEvent).await }
CallbackSendTimeline ==
    /\ syncPc = "callback"
    /\ cursor.ph = "timeline"
    /\ Send(TimelineMsg(response[cursor.ri].room, cursor.ei))
    /\ emitted' = Append(emitted,
                         TimelineMsg(response[cursor.ri].room, cursor.ei))
    /\ cursor' = Norm(response, cursor.ri, "timeline", cursor.ei + 1)
    /\ UNCHANGED <<connVars, clientVars, dispVars, syncPc, bootVars, syncs,
                   response, fetchVars, bridge, storeVars>>

\* Variant: the callback returns LoopCtrl::Break after the last room.
CallbackMembers_Break ==
    /\ syncPc = "callback"
    /\ cursor.ph = "members"
    /\ fetchReq' = IF membersSynced[response[cursor.ri].room]
                   THEN fetchReq
                   ELSE [fetchReq EXCEPT ![response[cursor.ri].room] = @ + 1]
    /\ IF cursor.ri < Len(response)
       THEN /\ cursor' = Norm(response, cursor.ri + 1, "state", 1)
            /\ syncPc' = "callback"
            /\ UNCHANGED <<response, emitted>>
       ELSE /\ cursor' = IdleCursor
            /\ syncPc' = "done"
            /\ response' = <<>>
            /\ emitted' = <<>>
    /\ UNCHANGED <<connVars, clientVars, chanVars, dispVars, bootVars, syncs,
                   fetchSend, bridge, storeVars>>

\* if !r.are_members_synced() { tokio::spawn(...) }, then the next room;
\* after the last room the callback returns LoopCtrl::Continue and the
\* response is dropped.
CallbackMembers ==
    /\ syncPc = "callback"
    /\ cursor.ph = "members"
    /\ fetchReq' = IF membersSynced[response[cursor.ri].room]
                   THEN fetchReq
                   ELSE [fetchReq EXCEPT ![response[cursor.ri].room] = @ + 1]
    /\ IF cursor.ri < Len(response)
       THEN /\ cursor' = Norm(response, cursor.ri + 1, "state", 1)
            /\ syncPc' = "callback"
            /\ UNCHANGED <<response, emitted>>
       ELSE /\ cursor' = IdleCursor
            /\ syncPc' = "poll"
            /\ response' = <<>>
            /\ emitted' = <<>>
    /\ UNCHANGED <<connVars, clientVars, chanVars, dispVars, bootVars, syncs,
                   fetchSend, bridge, storeVars>>

\* ------------------------------------------- the spawned membership fetch
\* client.room_members(&room_id).await returns Ok: the client marks the
\* room's members as synced, and the task goes on to send.
FetchOk(r) ==
    /\ fetchReq[r] > 0
    /\ fetchReq' = [fetchReq EXCEPT ![r] = @ - 1]
    /\ fetchSend' = [fetchSend EXCEPT ![r] = @ + 1]
    /\ membersSynced' = [membersSynced EXCEPT ![r] = TRUE]
    /\ UNCHANGED <<connVars, loggedIn, deviceFile, chanVars, dispVars, syncPc,
                   bootVars, cbVars, bridge, storeVars>>

\* client.room_members(&room_id).await returns Err: the task ends.
FetchFail(r) ==
    /\ fetchReq[r] > 0
    /\ fetchReq' = [fetchReq EXCEPT ![r] = @ - 1]
    /\ UNCHANGED <<connVars, clientVars, chanVars, dispVars, syncPc, bootVars,
                   cbVars, fetchSend, bridge, storeVars>>

\* Variant: the fetch sends its message and stays, to send it again.
FetchSend_StaysAlive(r) ==
    /\ fetchSend[r] > 0
    /\ Send(MembersMsg(r))
    /\ UNCHANGED <<connVars, clientVars, dispVars, syncPc, bootVars, cbVars,
                   fetchVars, bridge, storeVars>>

\* channel.send(Ok(ClientMessage::Members(room_id, members))).await
FetchSend(r) ==
    /\ fetchSend[r] > 0
    /\ Send(MembersMsg(r))
    /\ fetchSend' = [fetchSend EXCEPT ![r] = @ - 1]
    /\ UNCHANGED <<connVars, clientVars, dispVars, syncPc, bootVars, cbVars,
                   fetchReq, bridge, storeVars>>

\* ------------------------------------------------------- specifications
\* The connection while its server lives.
Next ==
    \/ DropConnection
    \/ DispatchMessage
    \/ DispatchError
    \/ DispatchClosed
    \/ SyncStart
    \/ LoadDeviceId
    \/ SendReadErr
    \/ LoginAccepted
    \/ LoginRejected
    \/ SendLoginErr
    \/ SaveDeviceId
    \/ SendWriteErr
    \/ SendLogin
    \/ FilterOk
    \/ FilterFail
    \/ Poll
    \/ CallbackSendState
    \/ CallbackSendTimeline
    \/ CallbackMembers
    \/ \E r \in Rooms : FetchOk(r)
    \/ \E r \in Rooms : FetchFail(r)
    \/ \E r \in Rooms : FetchSend(r)

Spec == Init /\ [][Next]_vars

\* The connection and a server that can be destroyed under it.
NextServer ==
    \/ Next
    \/ DestroyServer
    \/ DispatchPanic

SpecServer == Init /\ [][NextServer]_vars

\* The connection with clones of it made and dropped.  The membership
\* fetches the callback spawns stay pending in client.room_members.
NextClones ==
    \/ CloneConnection
    \/ DropConnection
    \/ DispatchMessage
    \/ DispatchError
    \/ DispatchClosed
    \/ SyncStart
    \/ LoadDeviceId
    \/ SendReadErr
    \/ LoginAccepted
    \/ LoginRejected
    \/ SendLoginErr
    \/ SaveDeviceId
    \/ SendWriteErr
    \/ SendLogin
    \/ FilterOk
    \/ FilterFail
    \/ Poll
    \/ CallbackSendState
    \/ CallbackSendTimeline
    \/ CallbackMembers

SpecClones == Init /\ [][NextClones]_vars


\* ---------------------------------------------------- Connection::spawn
\* A request operation is called: self.runtime.spawn(future), and the
\* caller awaits the JoinHandle.  send_message takes an optional
\* transaction id.
BridgeCall(c) ==
    /\ clones >= 1
    /\ bridge[c].st = "idle"
    /\ \E op \in BridgeOps, a \in Tokens \cup {None} :
         /\ op # "send_message" => a = None
         /\ bridge' = [bridge EXCEPT ![c] =
                         [st |-> "running", op |-> op, arg |-> a,
                          txn |-> None, ret |-> None]]
    /\ UNCHANGED <<connVars, clientVars, chanVars, dispVars, syncPc, bootVars,
                   cbVars, fetchVars, storeVars>>

\* Variant: a new transaction id is drawn for every call.
TxnId_AlwaysFresh(arg, fresh) == fresh

\* Some(transaction_id.unwrap_or_else(Uuid::new_v4))
TxnId(arg, fresh) == IF arg = None THEN fresh ELSE arg

\* The future runs to its end on the runtime: the client call returns the
\* server's answer or a protocol error.  send_message hands room_send the
\* transaction id.
WorkDone(c) ==
    /\ bridge[c].st = "running"
    /\ \E r \in {"ok", "protocol_error"}, u \in FreshTokens :
         bridge' = [bridge EXCEPT
                      ![c].st = "finished",
                      ![c].txn = IF bridge[c].op = "send_message"
                                 THEN TxnId(bridge[c].arg, u) ELSE None,
                      ![c].ret = r]
    /\ UNCHANGED <<connVars, clientVars, chanVars, dispVars, syncPc, bootVars,
                   cbVars, fetchVars, storeVars>>

\* The task ends without an output (it panicked or was cancelled): the
\* JoinHandle resolves to Err(JoinError).
WorkAborted(c) ==
    /\ bridge[c].st = "running"
    /\ bridge' = [bridge EXCEPT ![c].st = "aborted"]
    /\ UNCHANGED <<connVars, clientVars, chanVars, dispVars, syncPc, bootVars,
                   cbVars, fetchVars, storeVars>>

\* .await.expect("Tokio error while sending a message"): the output of the
\* future is returned to the caller; a JoinError panics.
BridgeJoin(c) ==
    /\ bridge[c].st \in {"finished", "aborted"}
    /\ bridge' = [bridge EXCEPT
                    ![c].st = IF bridge[c].st = "finished"
                              THEN "returned" ELSE "panicked"]
    /\ UNCHANGED <<connVars, clientVars, chanVars, dispVars, syncPc, bootVars,
                   cbVars, fetchVars, storeVars>>

\* Request operations issued on a live connection.
NextBridge ==
    \/ \E c \in Calls : BridgeCall(c)
    \/ \E c \in Calls : WorkDone(c)
    \/ \E c \in Calls : WorkAborted(c)
    \/ \E c \in Calls : BridgeJoin(c)

SpecBridge == Init /\ [][NextBridge]_vars


\* ------------------------------------------------------------ properties
IsPrefix(p, q) == Len(p) <= Len(q) /\ \A i \in 1..Len(p) : p[i] = q[i]
BagOfSeq(q) ==
    [m \in {q[i] : i \in 1..Len(q)} |-> Cardinality({i \in 1..Len(q) : q[i] = m})]
HasEv(e) == \E i \in 1..Len(trace) : trace[i].ev = e
CountEv(e) == Cardinality({i \in 1..Len(trace) : trace[i].ev = e})
Streaming == syncPc \in {"filter", "poll", "callback", "panicked"}

C4_BridgeNeverPanics == \A c \in Calls : bridge[c].st # "panicked"

\* C5: a sync loop that logged in without a device id and is about to
\* negotiate the filter has, in this order, sent the login request without
\* a device id, written the id the server returned to the file, and
\* enqueued one LoginMessage; before that it enqueued nothing.
C5_FirstLoginOrder ==
    (HasEv("login") /\ trace[1] = Ev("login", None)) =>
        /\ HasEv("write") =>
             \E d \in DeviceIds :
               /\ IsPrefix(<<Ev("login", None), Ev("login_ok", d),
                             Ev("write", d)>>, trace)
               /\ deviceFile = d
        /\ (\E i \in 1..Len(trace) : trace[i] = Ev("enq", "Login")) =>
             /\ Len(trace) >= 4
             /\ trace[3].ev = "write"
             /\ trace[4] = Ev("enq", "Login")
        /\ CountEv("enq") <= 1
        /\ Streaming =>
             /\ CountEv("enq") = 1
             /\ trace[4] = Ev("enq", "Login")
             /\ Len(trace) = IF syncPc = "filter" THEN 4 ELSE 5
             /\ syncPc \in {"filter", "panicked"}
             /\ syncs = 0

\* The first login went through and the loop is about to enter Streaming.
C5_Witness ==
    /\ syncPc = "filter"
    /\ trace = <<Ev("login", None), Ev("login_ok", "D2"), Ev("write", "D2"),
                 Ev("enq", "Login")>>
    /\ deviceFile = "D2"

\* C6: after a failed write of the device id the sync loop enqueues one Err
\* and nothing else (no LoginMessage), and stops without negotiating the
\* filter, polling or spawning a fetch.
C6_WriteFailureStops ==
    HasEv("write_failed") =>
        /\ \E x \in DeviceIds \cup {None}, d \in DeviceIds :
             IsPrefix(trace, <<Ev("login", x), Ev("login_ok", d),
                               Ev("write_failed", None), Ev("enq", "Err")>>)
        /\ syncPc \in {"send_write_err", "done", "cancelled"}
        /\ syncPc = "done" => CountEv("enq") = 1
        /\ syncs = 0
        /\ FetchesAlive = 0

\* The write failed and the loop returned after its Err.
C6_Witness ==
    /\ HasEv("write_failed")
    /\ syncPc = "done"
    /\ trace[Len(trace)] = Ev("enq", "Err")

\* C7: the sync loop sends at most one login request; after a rejected
\* login it enqueues one Err and stops, without a second login, without
\* writing the file and without entering Streaming.
C7_LoginRejectedStops ==
    /\ CountEv("login") <= 1
    /\ HasEv("login_rejected") =>
        /\ \E x \in DeviceIds \cup {None} :
             IsPrefix(trace, <<Ev("login", x), Ev("login_rejected", None),
                               Ev("enq", "Err")>>)
        /\ syncPc \in {"send_login_err", "done", "cancelled"}
        /\ syncPc = "done" => CountEv("enq") = 1
        /\ syncs = 0
        /\ FetchesAlive = 0

\* The login was rejected and the loop returned after its Err.
C7_Witness ==
    /\ HasEv("login_rejected")
    /\ syncPc = "done"
    /\ trace[Len(trace)] = Ev("enq", "Err")

\* C8: once the receiver has handled an Err payload it has printed an
\* error, it takes no further payload, and all that is left for it is to
\* find the channel closed and return.
C8_ErrEndsReceiver ==
    errHandled =>
        /\ errorsPrinted >= 1
        /\ ~recvAfterErr
        /\ channel = <<>>
        /\ ChannelClosed
        /\ disp \in {"recv", "done", "cancelled"}

\* The receiver handled an Err payload and then returned.
C8_Witness == errHandled /\ disp = "done" /\ errorsPrinted = 2

\* C9: when the server is gone the receiver stops without panicking.
C9_ReceiverNeverPanics == disp # "panicked"

\* C10: for every joined room of a sync response the callback enqueues the
\* room's state events and then its timeline events, each once, in the
\* server's order and with the room's identifier: s + t messages once the
\* room is done, a prefix of them before.
C10_RoomEvents ==
    syncPc = "callback" =>
        /\ \A i \in 1..Len(emitted) :
             \E k \in 1..cursor.ri : emitted[i].room = response[k].room
        /\ \A k \in 1..cursor.ri :
             LET e == response[k]
                 OfRoom(m) == m.room = e.room
                 got == SelectSeq(emitted, OfRoom)
                 exp == [i \in 1..(e.s + e.t) |->
                           IF i <= e.s THEN StateMsg(e.room, i)
                           ELSE TimelineMsg(e.room, i - e.s)]
             IN /\ IsPrefix(got, exp)
                /\ (k < cursor.ri \/ cursor.ph = "members") => got = exp

\* The callback is done with the second room of a response whose rooms
\* carry two state events and two timeline events each.
C10_Witness ==
    /\ syncPc = "callback"
    /\ cursor.ri = 2
    /\ cursor.ph = "members"
    /\ response[2].s = 2
    /\ response[2].t = 2
    /\ Len(emitted) = 8

\* Some task is suspended in (or about to call) channel.send.
SenderWaiting ==
    \/ syncPc \in {"send_read_err", "send_login_err", "send_write_err",
                   "send_login"}
    \/ syncPc = "callback" /\ cursor.ph \in {"state", "timeline"}
    \/ \E r \in Rooms : fetchSend[r] > 0
\* response_receiver has ended or was cancelled.
ConsumerGone == disp \in {"done", "cancelled", "panicked"}

\* C11: when the receiver is gone, a send by the sync loop or by a fetch
\* fails instead of blocking for ever: no task stays suspended in a send
\* on a full channel that nobody will ever take a payload from.
C11_SendFailsWhenConsumerGone ==
    ConsumerGone => ~(SenderWaiting /\ ChanFull(channel))

\* Enqueues of an Err recorded in the trace of the sync loop.
CountErrEnq == Cardinality({i \in 1..Len(trace) : trace[i] = Ev("enq", "Err")})

\* C12: a sync loop that stopped because it could not go on (a failed read
\* or write of the device id, a rejected login, a failed filter request)
\* has enqueued exactly one Err, and that was the last thing it did.
C12_OneTerminalErr ==
    syncPc \in {"done", "panicked"} =>
        /\ CountErrEnq = 1
        /\ trace # <<>>
        /\ trace[Len(trace)] = Ev("enq", "Err")

C14_StoredIdNeverChanges ==
    [][(\E d \in DeviceIds : deviceFile = d) => deviceFile' = deviceFile]_vars

\* C15: two distinct user names have distinct identity files: a save for
\* one user name leaves what load returns for any other user name as it
\* was.
C15_OneFilePerUser ==
    [][\A k \in 1..Len(accounts) :
         (storeOp'.op = "save" /\ storeOp'.user # accounts[k]) =>
             load_device_id(store'[DevicePath(accounts[k])], FALSE)
               = load_device_id(store[DevicePath(accounts[k])], FALSE)]_vars

\* The claim as stated: a load that follows a successful save for the same
\* user name returns the device id saved, whatever that id is.
C16_RoundTripAnyId ==
    (storeOp.op = "load" /\ storeOp.pUser = storeOp.user /\ storeOp.ok) =>
        storeOp.val = storeOp.pDev

\* C16: a load that follows a successful save of a non-empty device id for
\* the same user name, and that does not fail reading, returns exactly the
\* device id saved.
C16_RoundTrip ==
    (/\ storeOp.op = "load"
     /\ storeOp.pUser = storeOp.user
     /\ storeOp.ok
     /\ storeOp.pDev # Empty) =>
        storeOp.val = storeOp.pDev

\* A device id was saved for the second account and loaded back.
C16_Witness ==
    /\ storeOp.op = "load"
    /\ accounts # <<>>
    /\ storeOp.user = accounts[2]
    /\ storeOp.pUser = storeOp.user
    /\ storeOp.pDev = "D2"
    /\ storeOp.val = "D2"

\* What load_device_id is to hand the login for a file content.
StoredId(file) == IF file \in DeviceIds THEN file ELSE None

\* C17: with a missing or an empty device id file the sync loop logs in
\* without a device id (and with the stored one otherwise); a missing file
\* is never a read failure; after a failed read the loop enqueues one Err
\* and stops, and it sends no login request.
C17_LoadOutcomes ==
    /\ syncPc = "login" => device_id = StoredId(deviceFile)
    /\ syncPc \in {"save", "send_login_err"} =>
         (trace # <<>> /\ trace[1] = Ev("login", StoredId(deviceFile)))
    /\ HasEv("read_failed") =>
         /\ deviceFile # Absent
         /\ IsPrefix(trace, <<Ev("read_failed", None), Ev("enq", "Err")>>)
         /\ syncPc \in {"send_read_err", "done", "cancelled"}
         /\ syncPc = "done" => CountErrEnq = 1
         /\ ~loggedIn
         /\ syncs = 0

\* The file was empty and the login request went out without a device id.
C17_Witness ==
    /\ deviceFile = Empty
    /\ syncPc = "save"
    /\ trace[1] = Ev("login", None)

\* send_message calls whose future has run.
SentMessage(c) ==
    bridge[c].op = "send_message" /\ bridge[c].st \in {"finished", "returned"}

\* C18: room_send gets the transaction id the caller passed, and a newly
\* drawn one only when the caller passed none; two send_message calls with
\* the same explicit transaction id hand room_send the same id.
C18_TokenHonoured ==
    /\ \A c \in Calls :
         SentMessage(c) =>
             /\ bridge[c].arg # None => bridge[c].txn = bridge[c].arg
             /\ bridge[c].arg = None => bridge[c].txn \in FreshTokens
    /\ \A c1 \in Calls, c2 \in Calls :
         (/\ SentMessage(c1)
          /\ SentMessage(c2)
          /\ bridge[c1].arg # None
          /\ bridge[c1].arg = bridge[c2].arg) =>
             bridge[c1].txn = bridge[c2].txn

\* Two send_message calls with the transaction id T1 have run.
C18_Witness ==
    /\ SentMessage(1)
    /\ SentMessage(2)
    /\ bridge[1].arg = "T1"
    /\ bridge[2].arg = "T1"
    /\ bridge[1].txn = "T1"
    /\ bridge[2].txn = "T1"

\* The step is the callback's membership check of room r.
MembersStep(r) ==
    /\ syncPc = "callback"
    /\ cursor.ph = "members"
    /\ response[cursor.ri].room = r
    /\ cursor' # cursor

\* The step enqueues a Members message of room r.
MembersEnqueued(r) ==
    /\ Len(channel') = Len(channel) + 1
    /\ channel'[Len(channel')] = MembersMsg(r)

BeforeLoginMessage ==
    syncPc \in {"load", "login", "save", "send_login", "send_read_err",
                "send_login_err", "send_write_err"}

\* C20: as long as a sync loop that logs in has not sent its LoginMessage,
\* nothing was ever enqueued into the channel (and so nothing received), no
\* poll was made and no fetch spawned; when the LoginMessage has been sent
\* it is the one payload in the channel, or the one payload received.
C20_LoginMessageFirst ==
    /\ BeforeLoginMessage =>
         /\ CountEv("enq") = 0
         /\ channel = <<>>
         /\ outstanding = EmptyBag
         /\ inOrder = "none"
         /\ syncs = 0
         /\ FetchesAlive = 0
    /\ (syncPc = "filter" /\ HasEv("enq")) =>
         /\ trace[Len(trace)] = Ev("enq", "Login")
         /\ CountEv("enq") = 1
         /\ syncs = 0
         /\ FetchesAlive = 0
         /\ \/ inOrder = "none" /\ channel = <<LoginMsg>>
            \/ inOrder = "ok" /\ channel = <<>>

\* The LoginMessage is the only payload in the channel, the receiver has
\* taken nothing yet, and the loop is about to request the filter.
C20_Witness ==
    /\ syncPc = "filter"
    /\ HasEv("enq")
    /\ inOrder = "none"
    /\ disp = "recv"
    /\ channel = <<LoginMsg>>

\* The receiver and the sync loop, with its fetches and the channel.
sessionVars == <<disp, syncPc, fetchVars, chanVars>>

\* C21: the clones share the receiver task and the runtime: the drop of a
\* clone while another one lives changes neither the receiver nor the sync
\* loop, its fetches or the channel; the receiver and the sync loop are
\* cancelled by the drop of the last clone and by no other step.
C21_SharedUntilLastDrop ==
    [][/\ (clones' < clones /\ clones' >= 1) => UNCHANGED sessionVars
       /\ (clones' < clones /\ clones' = 0) =>
            /\ disp' # "recv"
            /\ syncPc' \in {"done", "panicked", "cancelled"}
            /\ FetchesAlive' = 0
       /\ (disp' = "cancelled" /\ disp # "cancelled") =>
            (clones = 1 /\ clones' = 0)
       /\ (syncPc' = "cancelled" /\ syncPc # "cancelled") =>
            (clones = 1 /\ clones' = 0)
       /\ clones' > clones => UNCHANGED sessionVars]_vars

\* A clone was dropped, another one lives, and the sync loop and the
\* receiver are at work on a sync response.
C21_Witness ==
    /\ cloneDropped
    /\ clones = 1
    /\ syncPc = "callback"
    /\ disp = "recv"
    /\ inOrder = "ok"
    /\ channel # <<>>

====
